---- MODULE Spec2Model ----
(***************************************************************************)
(* Deployment orchestration engine of nodejs-deployment-service:           *)
(* the webhook trigger, the task queue (volatile MemoryQueue, and the      *)
(* durable backend as the design describes it), the job store (MemoryRedis *)
(* / Redis hash) and the multi-project pipeline handler.                   *)
(***************************************************************************)
EXTENDS Integers, Sequences, FiniteSets, TLC

(* ------------------------------ bounds -------------------------------- *)
\* HTTP trigger requests the model lets arrive (accepted or rejected).
MaxRequests == 2
\* The same, in the durable configuration.
MaxDurableRequests == 1

(* -------------------------- program constants ------------------------- *)
ATTEMPTS == 3
MinProjects == 1
MaxProjects == 10
CONCURRENT_BUILDS == 2
PriorityHigh == 10
PriorityNormal == 5
PriorityLow == 1
\* Backup directories createRemoteBackup keeps (`tail -n +6` removes the rest).
RetainedBackups == 5

\* JS `undefined`, as it shows up as a value or as an object key.
Undefined == "undefined"
\* Projects that have an entry in PROJECT_CONFIGS.
Projects == {"a", "b", "c"}
\* Outcomes of Math.random()/Date.now() in the generated deployment id.
DeploymentIds == {"d1", "d2"}
MultiType == "build-and-deploy-multi"
SingleType == "build-and-deploy"
NoProcessor == "none"

VARIABLES
  redisEnabled,  \* config.REDIS.ENABLED: durable (TRUE) or volatile (FALSE) backend
  heap,          \* job objects ever created, by reference (allocation order)
  runs,          \* per job object: handler invocations started so far
  jobs,          \* the queue's Map of jobs: references in key insertion order
  processing,    \* MemoryQueue.processing
  processor,     \* MemoryQueue.processor / the durable backend's named processors
  immediates,    \* pending setImmediate(() => processJobs()) callbacks
  loop,          \* processJobs' for-loop: snapshot of waiting jobs and position
  handler,       \* per job object: the handler invocation in progress
  tasks,         \* per-project async operations launched by handlers
  pending,       \* store commands awaiting their reply, in the order issued
  store,         \* the job store: key -> hash
  emitted,       \* queue events emitted so far
  responses,     \* HTTP exchanges so far, in order: what was asked, what was answered
  workspace,     \* the build host: per project, the content of its dist directory
  remote,        \* the deploy server: per project, its directory and backups
  proxy          \* the nginx configuration file, its backups, what nginx serves

vars == <<redisEnabled, heap, runs, jobs, processing, processor, immediates,
          loop, handler, tasks, pending, store, emitted, responses, workspace,
          remote, proxy>>

(* ------------------------------ helpers ------------------------------- *)
Range(s) == {s[i] : i \in DOMAIN s}

\* obj.field in JS: undefined when the object has no such field.
Get(obj, f) == IF f \in DOMAIN obj THEN obj[f] ELSE Undefined

\* s with the element at position i replaced by x.
ReplaceAt(s, i, x) == [s EXCEPT ![i] = x]

\* Array.prototype.filter over references, keeping order.
RECURSIVE FilterRefs(_, _, _)
FilterRefs(s, h, status) ==
  IF s = <<>> THEN <<>>
  ELSE IF h[Head(s)].status = status
       THEN <<Head(s)>> \o FilterRefs(Tail(s), h, status)
       ELSE FilterRefs(Tail(s), h, status)

(* ------------------------------ validator ----------------------------- *)
\* A schema that lacks the .max(10) rule.
MultiRequestUncapped(body) ==
  /\ "projectIds" \in DOMAIN body
  /\ Len(body.projectIds) >= MinProjects

\* multiProjectDeploymentRequestSchema: projectIds is an array of 1..10 strings.
MultiRequestValid(body) ==
  /\ "projectIds" \in DOMAIN body
  /\ Len(body.projectIds) >= MinProjects
  /\ Len(body.projectIds) <= MaxProjects

\* singleProjectDeploymentRequestSchema: projectId is a required string.
SingleRequestValid(body) == "projectId" \in DOMAIN body

\* The webhook's priority mapping: high -> 10, low -> 1, anything else -> 5.
PriorityOf(body) ==
  IF Get(body, "priority") = "high" THEN PriorityHigh
  ELSE IF Get(body, "priority") = "low" THEN PriorityLow
  ELSE PriorityNormal

(* ------------------------------ job store ----------------------------- *)
\* A string's own enumerable properties: its characters by index.
StringProps_data == [k \in {"0", "1", "2", "3"} |->
                       CASE k = "0" -> "d" [] k = "1" -> "a"
                         [] k = "2" -> "t" [] OTHER -> "a"]

\* MemoryRedis.hgetall / Redis HGETALL: the hash, {} when the key is missing.
hgetall(st, key) == IF key \in DOMAIN st THEN st[key] ELSE <<>>

\* MemoryRedis.hset(key, data): Object.assign(storage[key], data).
MemoryRedis_hset(st, key, data) ==
  (key :> (data @@ hgetall(st, key))) @@ st

\* Redis HSET key field value.
Redis_hset(st, key, field, value) ==
  (key :> ((field :> value) @@ hgetall(st, key))) @@ st

\* redis.hset(statusKey, 'data', json) as the handler calls it: the in-memory
\* store takes two parameters, so 'data' is what it merges and json is dropped.
hset_data(st, key, json) ==
  IF redisEnabled THEN Redis_hset(st, key, "data", json)
  ELSE MemoryRedis_hset(st, key, StringProps_data)

\* `deployment:${deploymentId}:logs`
LogsKey(deploymentId) == <<"deployment", deploymentId, "logs">>

\* The last index addDeploymentLog keeps: ltrim(logsKey, 0, 99).
LastLogIndex == 99

\* MemoryRedis.lrange(key, 0, -1) / Redis LRANGE: the list, [] when missing.
lrange(st, key) == IF key \in DOMAIN st THEN st[key] ELSE <<>>

\* MemoryRedis.lpush / Redis LPUSH: the value goes to the front of the list.
lpush(st, key, value) == (key :> (<<value>> \o lrange(st, key))) @@ st

\* A trim that would keep the elements after the range instead.
ltrimOldest(st, key, start, end) ==
  IF key \in DOMAIN st /\ Len(st[key]) > end + 1
  THEN (key :> SubSeq(st[key], Len(st[key]) - end, Len(st[key]))) @@ st
  ELSE st

\* MemoryRedis.ltrim / Redis LTRIM: list.slice(start, end + 1) when the key exists.
ltrim(st, key, start, end) ==
  IF key \in DOMAIN st
  THEN (key :> SubSeq(st[key], start + 1,
                      IF Len(st[key]) < end + 1 THEN Len(st[key]) ELSE end + 1)) @@ st
  ELSE st

\* A status key that would be the same for every deployment.
SharedStatusKey(deploymentId) == <<"deployment", "d1", "status">>

\* `deployment:${deploymentId}:status`
StatusKey(deploymentId) == <<"deployment", deploymentId, "status">>

\* initializeDeploymentStatus' record.
InitialStatus(deploymentId, projectIds) ==
  [deploymentId |-> deploymentId,
   overallStatus |-> "pending",
   projects |-> [p \in Range(projectIds) |-> [status |-> "pending", progress |-> 0]]]

\* updateSingleProjectStatus' modification of the parsed record.
WithProject(status, projectId, s, progress) ==
  [status EXCEPT !.projects =
     (projectId :> [status |-> s, progress |-> progress]) @@ status.projects]

\* updateOverallStatus' modification of the parsed record.
WithOverall(status, s) == [status EXCEPT !.overallStatus = s]

(* ------------------------------ requests ------------------------------ *)
\* A project list longer than the schema allows.
Oversized == [i \in 1..(MaxProjects + 1) |-> "a"]

ReqProjectLists == {<<>>, <<"a">>, <<"a", "b">>, Oversized}
ReqPriorities == {"low", "high", Undefined}

MultiBodies ==
  {[projectIds |-> l, priority |-> p] : l \in ReqProjectLists, p \in ReqPriorities}
SingleBodies ==
  {[projectId |-> "a", priority |-> p] : p \in ReqPriorities}

(* ------------------- remote targets and proxy config ------------------ *)
\* A path that does not exist; a directory emptied by `find -mindepth 1 -delete`.
Absent == <<>>
Cleared == <<"cleared">>

\* What a deployment's build leaves in dist/, and generateNginxConfig's text.
Dist(dep) == <<"dist", dep>>
generateNginxConfig(projectIds) == <<"conf">> \o projectIds

\* A remote deploy directory: what it holds, its backup directories (newest
\* first, as `ls -t` lists them, each with the number it was created as), and
\* how many backups were ever created, uploads ever started, uploads completed
\* and uploads completed over a directory that existed before.
NewTarget(content) ==
  [content |-> content, snapshots |-> <<>>, made |-> 0, calls |-> 0,
   uploaded |-> 0, replaced |-> 0, pre |-> Absent, last |-> "none"]

\* The first n elements of a sequence.
FirstN(q, n) == IF Len(q) <= n THEN q ELSE SubSeq(q, 1, n)

\* Results of the commands uploadSingleProject runs: cp -r, the pruning
\* pipeline, putDirectory.
UploadOutcomes == [cp : BOOLEAN, prune : BOOLEAN, transfer : BOOLEAN]
UploadOk == [cp |-> TRUE, prune |-> TRUE, transfer |-> TRUE]

\* UploadService.createRemoteBackup: when the directory exists it is copied
\* to a timestamped backup directory and, if that worked, backups beyond the
\* newest RetainedBackups are removed; failures are logged only.
createRemoteBackup(target, o) ==
  IF target.content # Absent /\ o.cp
  THEN LET all == <<[content |-> target.content, id |-> target.made + 1]>>
                    \o target.snapshots
       IN [target EXCEPT !.made = @ + 1,
                         !.snapshots = IF o.prune THEN FirstN(all, RetainedBackups)
                                       ELSE all]
  ELSE target

\* UploadService.uploadSingleProject: backup, mkdir -p, clear the directory,
\* putDirectory; a failed transfer throws and leaves the directory as it is.
uploadSingleProject(target, dist, o) ==
  LET backed == [createRemoteBackup(target, o) EXCEPT !.pre = target.content,
                                                      !.calls = @ + 1] IN
  IF o.transfer
  THEN [backed EXCEPT !.content = dist, !.uploaded = @ + 1, !.last = "uploaded",
                      !.replaced = IF target.content # Absent THEN @ + 1 ELSE @]
  ELSE [backed EXCEPT !.content = Cleared, !.last = "failed"]

\* The proxy configuration file, its backup files (newest first), the
\* content the reload command was last invoked on, the content nginx serves,
\* the last reconfiguration and, in order, the steps it carried out.
NewProxy(content) ==
  [file |-> content, backups |-> <<>>, reloadedWith |-> Absent,
   serving |-> content, calls |-> 0, configured |-> 0, pre |-> Absent,
   last |-> "none", ran |-> <<>>]

\* NginxService.reloadNginx: the reload command runs on the file as it is.
reloadNginx(fs, ok) ==
  [fs EXCEPT !.reloadedWith = fs.file, !.serving = IF ok THEN fs.file ELSE @,
             !.ran = Append(@, "reload")]

\* Results of the operations updateNginxConfig performs.
ProxyOutcomes ==
  [backup : BOOLEAN, write : BOOLEAN, validate : BOOLEAN, reload : BOOLEAN,
   restoreCopy : BOOLEAN, restoreReload : BOOLEAN]
ProxyOk ==
  [backup |-> TRUE, write |-> TRUE, validate |-> TRUE, reload |-> TRUE,
   restoreCopy |-> TRUE, restoreReload |-> TRUE]

\* NginxService.backupNginxConfig: an existing file is copied to
\* `<path>.backup.<Date.now()>`; a failure is logged only.
backupNginxConfig(fs, o) ==
  IF fs.file # Absent /\ o.backup
  THEN [fs EXCEPT !.backups = <<fs.file>> \o @, !.ran = Append(@, "backup")]
  ELSE fs

\* NginxService.restoreBackupConfig: the newest backup file, if there is one,
\* is copied over the configuration and nginx reloaded; failures are logged.
restoreBackupConfig(fs, o) ==
  IF fs.backups # <<>> /\ o.restoreCopy
  THEN reloadNginx([fs EXCEPT !.file = Head(fs.backups),
                              !.ran = Append(@, "restore")], o.restoreReload)
  ELSE fs

\* NginxService.updateNginxConfig: backup, write, `nginx -t`, reload; any
\* failure after the backup restores the newest backup and throws.
updateNginxConfig(fs, generated, o) ==
  LET backed == [backupNginxConfig([fs EXCEPT !.ran = <<>>], o)
                   EXCEPT !.pre = fs.file, !.calls = @ + 1]
      written == [backed EXCEPT !.file = generated, !.ran = Append(@, "write")]
      checked == [written EXCEPT !.ran = Append(@, "validate")]
  IN IF ~o.write THEN [restoreBackupConfig(backed, o) EXCEPT !.last = "writeFailed"]
     ELSE IF ~o.validate
          THEN [restoreBackupConfig(checked, o) EXCEPT !.last = "invalid"]
     ELSE IF ~o.reload
          THEN [restoreBackupConfig(reloadNginx(checked, FALSE), o)
                  EXCEPT !.last = "reloadFailed"]
     ELSE [reloadNginx(checked, TRUE) EXCEPT !.configured = @ + 1,
                                             !.last = "configured"]

(* --------------------------- handler records -------------------------- *)
Idle == [pc |-> "idle"]

\* The position of the job with this id in the Map, 0 when there is none.
KeyIndex(js, h, id) ==
  IF \E k \in DOMAIN js : h[js[k]].id = id
  THEN CHOOSE k \in DOMAIN js : h[js[k]].id = id
  ELSE 0

\* Map.set(jobId, ref): a new key goes last, an existing key keeps its place.
MapSet(js, h, id, ref) ==
  IF KeyIndex(js, h, id) = 0 THEN Append(js, ref)
  ELSE ReplaceAt(js, KeyIndex(js, h, id), ref)

\* The job object MemoryQueue.add builds (name is what it was enqueued under;
\* the in-memory queue does not keep it on the object and never reads it).
NewJob(jobType, data, options, now) ==
  [id |-> data.deploymentId, name |-> jobType, data |-> data, options |-> options,
   status |-> "waiting", progress |-> 0, timestamp |-> now]

\* Date.now() at the time of a request: a logical clock.
Now == Len(responses) + 1

\* MemoryQueue.process(jobType, processor): one slot, whatever the job type.
MemoryQueue_process(current, jobType) == jobType

\* The durable backend keeps one processor per job type.
Durable_process(current, jobType) == current \cup {jobType}

\* The handler that runs a job: the in-memory queue's single processor, the
\* durable backend's processor registered under the job's name.
ProcessorFor(job) == IF redisEnabled THEN job.name ELSE processor

\* The project list a handler works on: the multi-project handler reads
\* data.projectIds, the single-project handler builds [data.projectId].
HandlerProjects(kind, data) ==
  IF kind = MultiType
  THEN (IF "projectIds" \in DOMAIN data THEN data.projectIds ELSE <<>>)
  ELSE <<Get(data, "projectId")>>

\* Whether the handler can iterate its project list at all (the multi-project
\* handler on a payload without projectIds throws in initializeDeploymentStatus).
HandlerHasProjects(kind, data) == kind = SingleType \/ "projectIds" \in DOMAIN data

\* The status hash as a store command issued now reads it.
ReadStatus(s, dep) == hgetall(s, StatusKey(dep))

\* The catch block of a handler: it calls updateOverallStatus(failed), whose
\* hgetall is issued at once.
ToCatch(hr, s) ==
  [hr EXCEPT !.pc = "overallW", !.target = "failed", !.local = ReadStatus(s, hr.dep)]

\* updateSingleProjectStatus for the project at position i begins: its hgetall.
UpdAt(hr, st, i, s) ==
  [hr EXCEPT !.pc = "updW", !.st = st, !.i = i, !.local = ReadStatus(s, hr.dep)]

\* updateProjectStatus(deploymentId, projectIds, ...) begins: first project.
StartUpd(hr, st, s) == UpdAt(hr, st, 1, s)

\* The status and progress each updateSingleProjectStatus call of a stage writes.
StageStatus(st) ==
  CASE st = "cloning" -> "cloning"
    [] st = "building" -> "building"
    [] st = "built" -> "building"
    [] st = "uploading" -> "uploading"
    [] st = "uploaded" -> "uploading"
    [] st = "configuring" -> "configuring"
    [] st = "configured" -> "configuring"
    [] OTHER -> "completed"

StageProgress(st) == IF st \in {"built", "uploaded", "configured"} THEN 100 ELSE 0

\* A chunking that puts everything from position pos on into one chunk.
Unchunked(projectIds, pos, size) ==
  {projectIds[k] : k \in {k \in DOMAIN projectIds : k >= pos}}

\* chunkArray(projectIds, size): the chunk that starts at position pos.
Chunk(projectIds, pos, size) ==
  {projectIds[k] : k \in {k \in DOMAIN projectIds : k >= pos /\ k < pos + size}}

\* buildMultipleProjects between awaits: with no build of the current chunk in
\* flight it starts the next chunk, or after the last one throws if any build
\* failed and otherwise returns to the handler (which updates the built projects).
BuildAdvance(hr, s) ==
  IF hr.inflight # {} THEN hr
  ELSE IF hr.pos <= Len(hr.projectIds)
       THEN [hr EXCEPT !.inflight = Chunk(hr.projectIds, hr.pos, CONCURRENT_BUILDS),
                       !.pos = hr.pos + CONCURRENT_BUILDS,
                       !.builds = hr.builds +
                         Cardinality(Chunk(hr.projectIds, hr.pos, CONCURRENT_BUILDS))]
       ELSE IF hr.errors # {} THEN ToCatch(hr, s)
            ELSE StartUpd(hr, "built", s)

\* job.progress(value) calls the handler makes when a stage's updates are done.
ProgressAfter(st, old) ==
  CASE st = "built" -> 50
    [] st = "uploaded" -> 80
    [] st = "configured" -> 90
    [] OTHER -> old

\* The handler after the last updateSingleProjectStatus of a stage's loop.
AfterStage(hr, s) ==
  CASE hr.st = "cloning" -> [hr EXCEPT !.pc = "awaitClones", !.local = <<>>]
    [] hr.st = "building" ->
         BuildAdvance([hr EXCEPT !.pc = "build", !.local = <<>>, !.pos = 1,
                                 !.inflight = {}, !.built = {}, !.errors = {}], s)
    [] hr.st = "built" -> [hr EXCEPT !.pc = "getConfig", !.local = <<>>]
    [] hr.st = "uploading" -> [hr EXCEPT !.pc = "connect", !.local = <<>>]
    [] hr.st = "uploaded" -> StartUpd(hr, "configuring", s)
    [] hr.st = "configuring" -> [hr EXCEPT !.pc = "nginx", !.local = <<>>]
    [] hr.st = "configured" -> StartUpd(hr, "completed", s)
    [] OTHER -> [hr EXCEPT !.pc = "overallW", !.target = "completed",
                           !.local = ReadStatus(s, hr.dep)]

\* The per-project operations a stage launches once its status updates are done.
NewTask(ref, dep, p, op) ==
  [ref |-> ref, dep |-> dep, proj |-> p, op |-> op, pc |-> "io",
   local |-> <<>>, live |-> TRUE]

CloneTasks(ref, hr) == {NewTask(ref, hr.dep, p, "clone") : p \in Range(hr.projectIds)}
UploadTasks(ref, hr) == {NewTask(ref, hr.dep, p, "upload") : p \in hr.built}

\* A Promise.all that would go on waiting for its other promises after one of
\* them rejected.
KeepWaiting(ts, ref) == ts

\* Promise.all has settled by rejection: what is still running is on its own.
Detach(ts, ref) ==
  {IF t.ref = ref THEN [t EXCEPT !.live = FALSE] ELSE t : t \in ts}

DetachPending(q, ref) ==
  [k \in DOMAIN q |->
     IF q[k].op # "handler" /\ q[k].ref = ref THEN [q[k] EXCEPT !.live = FALSE]
     ELSE q[k]]

\* The promises of one kind that the handler's Promise.all still waits for.
LiveTasks(ts, q, ref, op) ==
  {t \in ts \cup Range(q) : t.op = op /\ t.ref = ref /\ t.live}

\* A handler's await of a store command.
HandlerToken(ref) == [op |-> "handler", ref |-> ref]
AwaitsStore(hr) == hr.pc \in {"init", "updW", "overallW"}

\* The commands awaiting a reply once the handler of ref has moved to hr.
After(q, ref, hr) == IF AwaitsStore(hr) THEN Append(q, HandlerToken(ref)) ELSE q

\* The store has replied to the command the handler of ref awaits: replies
\* come in the order the commands were issued.
Replied(q, ref) == q # <<>> /\ Head(q).op = "handler" /\ Head(q).ref = ref

\* The handler called on job object ref, up to its first await: it builds the
\* initial record and issues its hset (initializeDeploymentStatus); a payload
\* whose project list cannot be iterated throws into the catch block instead.
StartHandler(h, ref, s) ==
  LET kind == ProcessorFor(h[ref])
      hr == [pc |-> "init", kind |-> kind, dep |-> h[ref].id,
             hasProjects |-> HandlerHasProjects(kind, h[ref].data),
             projectIds |-> HandlerProjects(kind, h[ref].data),
             st |-> "none", i |-> 0, local |-> <<>>, target |-> "none",
             pos |-> 1, inflight |-> {}, built |-> {}, errors |-> {},
             cloneFailed |-> FALSE, cloneError |-> Undefined, configFailed |-> FALSE, builds |-> 0, configs |-> 0, uploads |-> 0,
             nginxs |-> 0, sent |-> <<>>, delivered |-> TRUE]
  IN IF hr.hasProjects THEN hr ELSE ToCatch(hr, s)

\* The store after that call.
StoreAtStart(h, ref, s) ==
  LET kind == ProcessorFor(h[ref]) IN
  IF HandlerHasProjects(kind, h[ref].data)
  THEN hset_data(s, StatusKey(h[ref].id),
                 InitialStatus(h[ref].id, HandlerProjects(kind, h[ref].data)))
  ELSE s

(* ------------------------------- Init --------------------------------- *)
InitCommon ==
  /\ heap = <<>>
  /\ runs = <<>>
  /\ jobs = <<>>
  /\ processing = FALSE
  /\ immediates = 0
  /\ loop = [snap |-> <<>>, idx |-> 0]
  /\ handler = <<>>
  /\ tasks = {}
  /\ pending = <<>>
  /\ store = <<>>
  /\ emitted = {}
  /\ responses = <<>>
  /\ workspace = [p \in Projects |-> Absent]

\* A deploy server and a proxy host that have not been deployed to yet.
InitFiles ==
  /\ remote = [p \in Projects |-> NewTarget(Absent)]
  /\ proxy = NewProxy(Absent)

\* REDIS_ENABLED=false: MemoryQueue and MemoryRedis, both handlers registered.
Init ==
  /\ redisEnabled = FALSE
  /\ processor = MemoryQueue_process(MemoryQueue_process(NoProcessor, MultiType),
                                     SingleType)
  /\ InitCommon
  /\ InitFiles

\* REDIS_ENABLED unset: the durable queue and a Redis store.
InitDurable ==
  /\ redisEnabled = TRUE
  /\ processor = Durable_process(Durable_process({}, MultiType), SingleType)
  /\ InitCommon
  /\ InitFiles

(* ------------------------------ the queue ----------------------------- *)
\* MemoryQueue.add: build the job, jobs.set(jobId, job), schedule processJobs.
MemoryQueue_add(jobType, data, options) ==
  /\ heap' = Append(heap, NewJob(jobType, data, options, Now))
  /\ runs' = Append(runs, 0)
  /\ handler' = Append(handler, Idle)
  /\ jobs' = MapSet(jobs, heap, data.deploymentId, Len(heap) + 1)
  /\ immediates' = immediates + 1
  /\ UNCHANGED <<processing, processor, loop, tasks, pending, store, emitted>>

\* The durable backend's enqueue: a job id it already holds is not enqueued again.
Durable_add(jobType, data, options) ==
  IF KeyIndex(jobs, heap, options.jobId) # 0
  THEN UNCHANGED <<heap, runs, handler, jobs, immediates, processing, processor,
                   loop, tasks, pending, store, emitted>>
  ELSE /\ heap' = Append(heap, NewJob(jobType, data, options, Now))
       /\ runs' = Append(runs, 0)
       /\ handler' = Append(handler, Idle)
       /\ jobs' = Append(jobs, Len(heap) + 1)
       /\ UNCHANGED <<immediates, processing, processor, loop, tasks, pending, store, emitted>>

\* deploymentQueue.add of the configured backend.
QueueAdd(jobType, data, options) ==
  IF redisEnabled THEN Durable_add(jobType, data, options)
  ELSE MemoryQueue_add(jobType, data, options)

JobOptions(body, id) ==
  [priority |-> PriorityOf(body), attempts |-> ATTEMPTS, jobId |-> id]

\* One HTTP exchange: the endpoint, the size of the project set asked for, and
\* the status code of the response.
Exchange(jobType, n, code) == [endpoint |-> jobType, projects |-> n, code |-> code]

\* WebhookController.handleMultiProjectDeployment with a valid secret.
HandleMultiProjectDeployment(body, id) ==
  /\ UNCHANGED <<workspace, remote, proxy, redisEnabled>>
  /\ IF MultiRequestValid(body)
     THEN /\ QueueAdd(MultiType,
                      [deploymentId |-> id, projectIds |-> body.projectIds],
                      JobOptions(body, id))
          /\ responses' = Append(responses,
                                 Exchange(MultiType, Len(body.projectIds), 200))
     ELSE /\ responses' = Append(responses,
                                 Exchange(MultiType, Len(body.projectIds), 400))
          /\ UNCHANGED <<heap, runs, handler, jobs, immediates, processing,
                         processor, loop, tasks, pending, store, emitted>>

\* WebhookController.handleDeployment with a valid secret.
HandleDeployment(body, id) ==
  /\ UNCHANGED <<workspace, remote, proxy, redisEnabled>>
  /\ IF SingleRequestValid(body)
     THEN /\ QueueAdd(SingleType,
                      [deploymentId |-> id, projectId |-> body.projectId],
                      JobOptions(body, id))
          /\ responses' = Append(responses, Exchange(SingleType, 1, 200))
     ELSE /\ responses' = Append(responses, Exchange(SingleType, 0, 400))
          /\ UNCHANGED <<heap, runs, handler, jobs, immediates, processing,
                         processor, loop, tasks, pending, store, emitted>>

\* A processJobs that lacks the `if (this.processing) return` guard.
AlwaysStartLoop == TRUE

\* processJobs' guard: a second call while one is looping returns at once.
MayStartLoop == ~processing

\* A setImmediate callback runs MemoryQueue.processJobs: it returns at once
\* while another call is looping; otherwise it snapshots the waiting jobs, marks
\* the first one active and calls the processor, or finds none and is done.
processJobs ==
  /\ immediates > 0
  /\ immediates' = immediates - 1
  /\ UNCHANGED <<workspace, remote, proxy, redisEnabled, jobs, processor, tasks, emitted, responses>>
  /\ LET snap == FilterRefs(jobs, heap, "waiting") IN
     IF MayStartLoop /\ snap # <<>>
     THEN /\ processing' = TRUE
          /\ loop' = [snap |-> snap, idx |-> 1]
          /\ heap' = [heap EXCEPT ![snap[1]].status = "active"]
          /\ handler' = [handler EXCEPT ![snap[1]] = StartHandler(heap, snap[1], store)]
          /\ pending' = After(pending, snap[1], StartHandler(heap, snap[1], store))
          /\ store' = StoreAtStart(heap, snap[1], store)
          /\ runs' = [runs EXCEPT ![snap[1]] = @ + 1]
     ELSE UNCHANGED <<processing, loop, heap, handler, runs, pending, store>>

\* Waiting jobs of the durable backend that no waiting job precedes: higher
\* priority value first, enqueue order among equals.
DurableNext ==
  {r \in Range(jobs) :
     /\ heap[r].status = "waiting"
     /\ \A q \in Range(jobs) :
          heap[q].status = "waiting" /\ q # r =>
            \/ heap[q].options.priority < heap[r].options.priority
            \/ /\ heap[q].options.priority = heap[r].options.priority
               /\ heap[q].timestamp > heap[r].timestamp}

\* The durable backend hands a waiting job to the processor of its name.
DurableDispatch(ref) ==
  /\ redisEnabled
  /\ ref \in DurableNext
  /\ heap' = [heap EXCEPT ![ref].status = "active"]
  /\ handler' = [handler EXCEPT ![ref] = StartHandler(heap, ref, store)]
  /\ pending' = After(pending, ref, StartHandler(heap, ref, store))
  /\ store' = StoreAtStart(heap, ref, store)
  /\ runs' = [runs EXCEPT ![ref] = @ + 1]
  /\ UNCHANGED <<workspace, remote, proxy, redisEnabled, jobs, processing, processor, immediates, loop,
                 tasks, emitted, responses>>

\* processJobs after `await this.processor(job)`: the job is completed, or failed
\* when the handler threw; the event is emitted; the loop takes the next job of
\* its snapshot, or ends and clears `processing`.
MemoryQueue_finish(ref, outcome) ==
  LET h1 == [heap EXCEPT ![ref].status = outcome]
      nxt == loop.idx + 1
  IN /\ emitted' = emitted \cup {[event |-> outcome, ref |-> ref]}
     /\ IF nxt <= Len(loop.snap)
        THEN /\ heap' = [h1 EXCEPT ![loop.snap[nxt]].status = "active"]
             /\ handler' = [handler EXCEPT
                              ![ref] = Idle,
                              ![loop.snap[nxt]] = StartHandler(h1, loop.snap[nxt], store)]
             /\ pending' = After(pending, loop.snap[nxt],
                                 StartHandler(h1, loop.snap[nxt], store))
             /\ store' = StoreAtStart(h1, loop.snap[nxt], store)
             /\ runs' = [runs EXCEPT ![loop.snap[nxt]] = @ + 1]
             /\ loop' = [loop EXCEPT !.idx = nxt]
             /\ UNCHANGED processing
        ELSE /\ heap' = h1
             /\ handler' = [handler EXCEPT ![ref] = Idle]
             /\ loop' = [snap |-> <<>>, idx |-> 0]
             /\ processing' = FALSE
             /\ UNCHANGED <<runs, pending, store>>

\* The durable backend when the handler returns or throws: a failed attempt is
\* re-scheduled while attempts remain, otherwise the job is failed.
Durable_finish(ref, outcome) ==
  LET retry == outcome = "failed" /\ runs[ref] < heap[ref].options.attempts IN
  /\ heap' = [heap EXCEPT ![ref].status = IF retry THEN "waiting" ELSE outcome]
  /\ emitted' = IF retry THEN emitted
                ELSE emitted \cup {[event |-> outcome, ref |-> ref]}
  /\ handler' = [handler EXCEPT ![ref] = Idle]
  /\ UNCHANGED <<runs, loop, processing, pending, store>>

QueueFinish(ref, outcome) ==
  IF redisEnabled THEN Durable_finish(ref, outcome)
  ELSE MemoryQueue_finish(ref, outcome)

(* ----------------------------- the handler ---------------------------- *)
Running == {r \in DOMAIN handler : handler[r].pc # "idle"}

\* initializeDeploymentStatus has been written: job.progress(5), and the handler
\* goes on to updateProjectStatus(..., 'cloning').
InitStatus(ref) ==
  LET hr == StartUpd(handler[ref], "cloning", store) IN
  /\ ref \in Running /\ handler[ref].pc = "init" /\ Replied(pending, ref)
  /\ heap' = [heap EXCEPT ![ref].progress = 5]
  /\ handler' = [handler EXCEPT ![ref] = hr]
  /\ pending' = After(Tail(pending), ref, hr)
  /\ UNCHANGED <<workspace, remote, proxy, redisEnabled, runs, jobs, processing, processor, immediates,
                 loop, tasks, store, emitted, responses>>

\* What updateSingleProjectStatus writes back given what it read: the parsed
\* record with this one project replaced, or nothing when there was no data.
ProjectWrite(s, dep, local, projectId, status, progress) ==
  IF "data" \in DOMAIN local
  THEN hset_data(s, StatusKey(dep), WithProject(local.data, projectId, status, progress))
  ELSE s

\* updateSingleProjectStatus after its hgetall: the whole record is written
\* back. The loop goes on to the next project; after the last one the handler
\* moves on to the stage's work.
UpdWrite(ref) ==
  LET hr == handler[ref]
      last == hr.i >= Len(hr.projectIds)
      s2 == IF hr.st = "built" /\ hr.projectIds[hr.i] \notin hr.built
            THEN store
            ELSE ProjectWrite(store, hr.dep, hr.local, hr.projectIds[hr.i],
                              StageStatus(hr.st), StageProgress(hr.st))
      hr2 == IF last THEN AfterStage(hr, s2) ELSE UpdAt(hr, hr.st, hr.i + 1, s2)
  IN /\ ref \in Running /\ hr.pc = "updW" /\ Replied(pending, ref)
     /\ store' = s2
     /\ handler' = [handler EXCEPT ![ref] = hr2]
     /\ pending' = After(Tail(pending), ref, hr2)
     /\ heap' = IF last
                THEN [heap EXCEPT ![ref].progress = ProgressAfter(hr.st, @)]
                ELSE heap
     /\ tasks' = IF last /\ hr.st = "cloning" THEN tasks \cup CloneTasks(ref, hr)
                 ELSE tasks
     /\ UNCHANGED <<workspace, remote, proxy, redisEnabled, runs, jobs, processing, processor, immediates,
                    loop, emitted, responses>>

\* Whether gitService.cloneOrUpdateProject can succeed: the project is configured.
CanClone(projectId) == projectId \in Projects

\* A project's source acquisition succeeds: its .then calls
\* updateSingleProjectStatus(..., 'cloning', ..., 100), whose hgetall is issued.
CloneOk(t) ==
  /\ t \in tasks /\ t.op = "clone" /\ CanClone(t.proj)
  /\ tasks' = tasks \ {t}
  /\ pending' = Append(pending, [t EXCEPT !.pc = "thenW",
                                        !.local = ReadStatus(store, t.dep)])
  /\ UNCHANGED <<workspace, remote, proxy, redisEnabled, heap, runs, jobs, processing, processor, immediates,
                 loop, handler, store, emitted, responses>>

\* A project's source acquisition fails: its .catch calls
\* updateSingleProjectStatus(..., 'failed', ...) without awaiting it and
\* re-throws, so Promise.all rejects (if it has not already) and the handler
\* enters its catch block.
CloneFail(t) ==
  LET failing == [t EXCEPT !.pc = "failW", !.live = FALSE,
                           !.local = ReadStatus(store, t.dep)]
      hr == [ToCatch(handler[t.ref], store) EXCEPT !.cloneFailed = TRUE,
                                                 !.cloneError = t.proj]
  IN /\ t \in tasks /\ t.op = "clone"
     /\ tasks' = IF t.live THEN Detach(tasks \ {t}, t.ref) ELSE tasks \ {t}
     /\ pending' = IF t.live
                   THEN After(Append(DetachPending(pending, t.ref), failing), t.ref, hr)
                   ELSE Append(pending, failing)
     /\ handler' = IF t.live THEN [handler EXCEPT ![t.ref] = hr] ELSE handler
     /\ UNCHANGED <<workspace, remote, proxy, redisEnabled, heap, runs, jobs, processing, processor, immediates,
                    loop, store, emitted, responses>>

\* The handler after `await Promise.all(clonePromises)`: job.progress(20) and
\* updateProjectStatus(..., 'building').
AfterClones(hr, s) == StartUpd(hr, "building", s)

\* The hgetall of a status update started by a clone's .then or .catch has
\* replied: the record is written back. The .then's write fulfils the clone
\* promise: when it was the last one Promise.all waited for, the handler goes on.
TaskWrite(t) ==
  LET rest == Tail(pending)
      done == t.live /\ LiveTasks(tasks, rest, t.ref, "clone") = {}
      s2 == IF t.pc = "thenW"
            THEN ProjectWrite(store, t.dep, t.local, t.proj, "cloning", 100)
            ELSE ProjectWrite(store, t.dep, t.local, t.proj, "failed", 0)
      hr == AfterClones(handler[t.ref], s2)
  IN /\ pending # <<>> /\ t = Head(pending) /\ t.op = "clone"
     /\ store' = s2
     /\ pending' = IF done THEN After(rest, t.ref, hr) ELSE rest
     /\ handler' = IF done THEN [handler EXCEPT ![t.ref] = hr] ELSE handler
     /\ heap' = IF done THEN [heap EXCEPT ![t.ref].progress = 20] ELSE heap
     /\ UNCHANGED <<workspace, remote, proxy, redisEnabled, runs, jobs, processing, processor, immediates,
                    loop, tasks, emitted, responses>>

\* One buildProject of the chunk in flight resolves: it has removed the
\* project's dist directory and, when it succeeds, left its build output there;
\* a project that is not configured fails before that. The failure is recorded
\* and the others go on. buildMultipleProjects then continues as BuildAdvance says.
BuildResolve(ref, p, ok) ==
  LET hr == handler[ref]
      hr2 == BuildAdvance([hr EXCEPT !.inflight = hr.inflight \ {p},
                                     !.built = IF ok THEN hr.built \cup {p} ELSE hr.built,
                                     !.errors = IF ok THEN hr.errors ELSE hr.errors \cup {p}],
                          store)
  IN /\ ref \in Running /\ hr.pc = "build" /\ p \in hr.inflight
     /\ ok => p \in Projects
     /\ handler' = [handler EXCEPT ![ref] = hr2]
     /\ pending' = After(pending, ref, hr2)
     /\ workspace' = IF p \in Projects
                      THEN [workspace EXCEPT ![p] = IF ok THEN Dist(hr.dep) ELSE Absent]
                      ELSE workspace
     /\ UNCHANGED <<remote, proxy, redisEnabled, heap, runs, jobs, processing, processor, immediates,
                    loop, tasks, store, emitted, responses>>

\* A handler that would go on to the upload stage without a server configuration.
ConfigIgnored(hr, s) == StartUpd([hr EXCEPT !.configFailed = TRUE], "uploading", s)

\* getServerConfig throws: the handler's await throws into the catch block.
ConfigFailure(hr, s) == ToCatch([hr EXCEPT !.configFailed = TRUE], s)

\* configService.getServerConfig resolves: job.progress(60) and the uploading
\* status updates, or the catch block.
GetConfig(ref, ok) ==
  LET called == [handler[ref] EXCEPT !.configs = @ + 1]
      hr == IF ok THEN StartUpd(called, "uploading", store)
            ELSE ConfigFailure(called, store)
  IN /\ ref \in Running /\ handler[ref].pc = "getConfig"
     /\ handler' = [handler EXCEPT ![ref] = hr]
     /\ pending' = After(pending, ref, hr)
     /\ heap' = IF ok THEN [heap EXCEPT ![ref].progress = 60] ELSE heap
     /\ UNCHANGED <<workspace, remote, proxy, redisEnabled, runs, jobs, processing, processor, immediates,
                    loop, tasks, store, emitted, responses>>

\* uploadMultipleProjects: ssh.connect resolves; on success one upload per built
\* project is started and Promise.all awaited.
UploadConnect(ref, ok) ==
  LET called == [handler[ref] EXCEPT !.uploads = @ + 1]
      hr == IF ok THEN [called EXCEPT !.pc = "awaitUploads"]
            ELSE ToCatch(called, store)
  IN /\ ref \in Running /\ handler[ref].pc = "connect"
     /\ handler' = [handler EXCEPT ![ref] = hr]
     /\ pending' = After(pending, ref, hr)
     /\ tasks' = IF ok THEN tasks \cup UploadTasks(ref, handler[ref]) ELSE tasks
     /\ UNCHANGED <<workspace, remote, proxy, redisEnabled, heap, runs, jobs, processing, processor, immediates,
                    loop, store, emitted, responses>>

\* One uploadSingleProject resolves. The last success lets the handler go on to
\* the uploaded status updates; the first failure rejects Promise.all.
UploadResolve(t, ok) ==
  LET rest == tasks \ {t}
      done == ok /\ t.live /\ LiveTasks(rest, <<>>, t.ref, "upload") = {}
      hr == IF done THEN StartUpd(handler[t.ref], "uploaded", store)
            ELSE ToCatch(handler[t.ref], store)
      moves == done \/ (~ok /\ t.live)
  IN /\ t \in tasks /\ t.op = "upload"
     /\ ok => workspace[t.proj] # Absent
     /\ tasks' = IF ~ok /\ t.live THEN Detach(rest, t.ref) ELSE rest
     /\ handler' = IF moves THEN [handler EXCEPT ![t.ref] = hr] ELSE handler
     /\ pending' = IF moves THEN After(pending, t.ref, hr) ELSE pending
     /\ remote' = [remote EXCEPT ![t.proj] =
                     uploadSingleProject(@, workspace[t.proj],
                                         [UploadOk EXCEPT !.transfer = ok])]
     /\ UNCHANGED <<workspace, proxy, redisEnabled, heap, runs, jobs, processing, processor, immediates,
                    loop, store, emitted, responses>>

\* nginxService.updateNginxConfig resolves: the configured status updates, or
\* the catch block.
Nginx(ref, ok) ==
  LET called == [handler[ref] EXCEPT !.nginxs = @ + 1]
      hr == IF ok THEN StartUpd(called, "configured", store)
            ELSE ToCatch(called, store)
  IN /\ ref \in Running /\ handler[ref].pc = "nginx"
     /\ handler' = [handler EXCEPT ![ref] = hr]
     /\ pending' = After(pending, ref, hr)
     /\ proxy' = updateNginxConfig(proxy, generateNginxConfig(handler[ref].projectIds),
                                   [ProxyOk EXCEPT !.validate = ok])
     /\ UNCHANGED <<workspace, remote, redisEnabled, heap, runs, jobs, processing, processor, immediates,
                    loop, tasks, store, emitted, responses>>

\* What updateOverallStatus writes back given what it read.
OverallWriteBack(s, dep, local, status) ==
  IF "data" \in DOMAIN local
  THEN hset_data(s, StatusKey(dep), WithOverall(local.data, status))
  ELSE s

\* updateOverallStatus after its hgetall. On the success path job.progress(100)
\* and the success notification follow; in the catch block cleanupOnFailure.
OverallWrite(ref) ==
  LET hr == handler[ref] IN
  /\ ref \in Running /\ hr.pc = "overallW" /\ Replied(pending, ref)
  /\ store' = OverallWriteBack(store, hr.dep, hr.local, hr.target)
  /\ pending' = Tail(pending)
  /\ handler' = [handler EXCEPT ![ref].local = <<>>,
                                ![ref].pc = IF hr.target = "completed" THEN "notify"
                                            ELSE "cleanup"]
  /\ heap' = IF hr.target = "completed" THEN [heap EXCEPT ![ref].progress = 100]
             ELSE heap
  /\ UNCHANGED <<workspace, remote, proxy, redisEnabled, runs, jobs, processing, processor, immediates,
                 loop, tasks, emitted, responses>>

\* buildService.cleanupOnFailure resolves (it never rejects): the dist
\* directory of every configured project of the deployment is removed.
CleanupOnFailure(ref) ==
  /\ ref \in Running /\ handler[ref].pc = "cleanup"
  /\ handler' = [handler EXCEPT ![ref].pc = "notify"]
  /\ workspace' = [p \in Projects |->
                     IF p \in Range(handler[ref].projectIds) THEN Absent
                     ELSE workspace[p]]
  /\ UNCHANGED <<remote, proxy, redisEnabled, heap, runs, jobs, processing, processor, immediates,
                 loop, tasks, pending, store, emitted, responses>>

\* A handler that would announce success on both of its exits.
AlwaysSuccess(target) == "success"

\* The notification the handler sends on each of its two exits.
NotificationFor(target) == IF target = "completed" THEN "success" ELSE "failure"

\* notificationService.send...Notification resolves: the webhook post succeeded
\* or failed, and a failure is logged inside the service, never thrown.
Notify(ref, ok) ==
  /\ ref \in Running /\ handler[ref].pc = "notify"
  /\ handler' = [handler EXCEPT
                   ![ref].pc = "return",
                   ![ref].sent = Append(@, NotificationFor(handler[ref].target)),
                   ![ref].delivered = ok]
  /\ UNCHANGED <<workspace, remote, proxy, redisEnabled, heap, runs, jobs, processing, processor, immediates,
                 loop, tasks, pending, store, emitted, responses>>

\* What the handler hands back to the queue: its result, or the error re-thrown.
HandlerOutcome(hr) == IF hr.target = "completed" THEN "completed" ELSE "failed"

\* The handler returns its result or re-throws, and the queue takes the outcome.
HandlerReturn(ref) ==
  /\ ref \in Running /\ handler[ref].pc = "return"
  /\ QueueFinish(ref, HandlerOutcome(handler[ref]))
  /\ UNCHANGED <<workspace, remote, proxy, redisEnabled, jobs, processor, immediates, tasks, responses>>

(* --------------------------- specifications --------------------------- *)
HandlerStep ==
  \/ \E ref \in DOMAIN handler : InitStatus(ref)
  \/ \E ref \in DOMAIN handler : UpdWrite(ref)
  \/ \E t \in tasks : CloneOk(t)
  \/ \E t \in tasks : CloneFail(t)
  \/ \E t \in Range(pending) : TaskWrite(t)
  \/ \E ref \in DOMAIN handler, p \in Projects \cup {Undefined}, ok \in BOOLEAN :
       BuildResolve(ref, p, ok)
  \/ \E ref \in DOMAIN handler, ok \in BOOLEAN : GetConfig(ref, ok)
  \/ \E ref \in DOMAIN handler, ok \in BOOLEAN : UploadConnect(ref, ok)
  \/ \E t \in tasks, ok \in BOOLEAN : UploadResolve(t, ok)
  \/ \E ref \in DOMAIN handler, ok \in BOOLEAN : Nginx(ref, ok)
  \/ \E ref \in DOMAIN handler : OverallWrite(ref)
  \/ \E ref \in DOMAIN handler : CleanupOnFailure(ref)
  \/ \E ref \in DOMAIN handler, ok \in BOOLEAN : Notify(ref, ok)
  \/ \E ref \in DOMAIN handler : HandlerReturn(ref)

\* The webhook endpoints, for at most max requests.
Trigger(max) ==
  /\ Len(responses) < max
  /\ \/ \E body \in MultiBodies, id \in DeploymentIds :
          HandleMultiProjectDeployment(body, id)
     \/ \E body \in SingleBodies, id \in DeploymentIds : HandleDeployment(body, id)

\* The volatile configuration.
Next == Trigger(MaxRequests) \/ processJobs \/ HandlerStep

Spec == Init /\ [][Next]_vars

\* The durable configuration.
NextDurable ==
  \/ Trigger(MaxDurableRequests)
  \/ \E ref \in DOMAIN handler : DurableDispatch(ref)
  \/ HandlerStep

SpecDurable == InitDurable /\ [][NextDurable]_vars

\* The volatile configuration when scheduled callbacks run and every pending
\* handler step is eventually taken; requests may stop arriving at any time.
FairSpec == Init /\ [][Next]_vars /\ WF_vars(processJobs) /\ WF_vars(HandlerStep)

\* The durable configuration serving one deployment of more projects than
\* CONCURRENT_BUILDS, with a repository server that answers every clone.
WideBody == [projectIds |-> <<"a", "b", "c">>, priority |-> Undefined]

TriggerWide ==
  /\ Len(responses) < MaxDurableRequests
  /\ \E id \in DeploymentIds : HandleMultiProjectDeployment(WideBody, id)

NextBuild ==
  \/ TriggerWide
  \/ \E ref \in DOMAIN handler : DurableDispatch(ref)
  \/ \E ref \in DOMAIN handler : InitStatus(ref)
  \/ \E ref \in DOMAIN handler : UpdWrite(ref)
  \/ \E t \in tasks : CloneOk(t)
  \/ \E t \in Range(pending) : TaskWrite(t)
  \/ \E ref \in DOMAIN handler, p \in Projects, ok \in BOOLEAN : BuildResolve(ref, p, ok)
  \/ \E ref \in DOMAIN handler, ok \in BOOLEAN : GetConfig(ref, ok)
  \/ \E ref \in DOMAIN handler, ok \in BOOLEAN : UploadConnect(ref, ok)
  \/ \E t \in tasks, ok \in BOOLEAN : UploadResolve(t, ok)
  \/ \E ref \in DOMAIN handler, ok \in BOOLEAN : Nginx(ref, ok)
  \/ \E ref \in DOMAIN handler : OverallWrite(ref)
  \/ \E ref \in DOMAIN handler : CleanupOnFailure(ref)
  \/ \E ref \in DOMAIN handler, ok \in BOOLEAN : Notify(ref, ok)
  \/ \E ref \in DOMAIN handler : HandlerReturn(ref)

SpecBuild == InitDurable /\ [][NextBuild]_vars

\* The worker on its own: the durable queue already holds one multi-project
\* job, whose project list is whatever its producer put there.
QueuedLists == {<<"a">>, <<"a", "b">>, Oversized}

InitQueued ==
  /\ redisEnabled = TRUE
  /\ processor = Durable_process(Durable_process({}, MultiType), SingleType)
  /\ \E l \in QueuedLists :
       heap = <<NewJob(MultiType, [deploymentId |-> "d1", projectIds |-> l],
                       [priority |-> PriorityNormal, attempts |-> ATTEMPTS,
                        jobId |-> "d1"], 1)>>
  /\ runs = <<0>>
  /\ jobs = <<1>>
  /\ handler = <<Idle>>
  /\ processing = FALSE
  /\ immediates = 0
  /\ loop = [snap |-> <<>>, idx |-> 0]
  /\ tasks = {}
  /\ pending = <<>>
  /\ store = <<>>
  /\ emitted = {}
  /\ responses = <<>>
  /\ workspace = [p \in Projects |-> Absent]
  /\ InitFiles

NextQueued ==
  \/ \E ref \in DOMAIN handler : DurableDispatch(ref)
  \/ HandlerStep

SpecQueued == InitQueued /\ [][NextQueued]_vars

\* The durable configuration serving two deployments of the same project,
\* with adapters that answer, builds that may fail and uploads that may fail.
SharedBody == [projectIds |-> <<"a">>, priority |-> Undefined]
MaxShared == 2

TriggerShared ==
  /\ Len(responses) < MaxShared
  /\ \E id \in DeploymentIds : HandleMultiProjectDeployment(SharedBody, id)

NextWorkspace ==
  \/ TriggerShared
  \/ \E ref \in DOMAIN handler : DurableDispatch(ref)
  \/ \E ref \in DOMAIN handler : InitStatus(ref)
  \/ \E ref \in DOMAIN handler : UpdWrite(ref)
  \/ \E t \in tasks : CloneOk(t)
  \/ \E t \in Range(pending) : TaskWrite(t)
  \/ \E ref \in DOMAIN handler, p \in Projects, ok \in BOOLEAN : BuildResolve(ref, p, ok)
  \/ \E ref \in DOMAIN handler : GetConfig(ref, TRUE)
  \/ \E ref \in DOMAIN handler : UploadConnect(ref, TRUE)
  \/ \E t \in tasks, ok \in BOOLEAN : UploadResolve(t, ok)
  \/ \E ref \in DOMAIN handler : Nginx(ref, TRUE)
  \/ \E ref \in DOMAIN handler : OverallWrite(ref)
  \/ \E ref \in DOMAIN handler : CleanupOnFailure(ref)
  \/ \E ref \in DOMAIN handler : Notify(ref, TRUE)
  \/ \E ref \in DOMAIN handler : HandlerReturn(ref)

SpecWorkspace == InitDurable /\ [][NextWorkspace]_vars

\* The upload service on its own: uploads to the deploy directories, one
\* after another, each with its own build output and its own command results.
MaxUploads == 7

\* A deploy directory that was put in place before the service was installed.
Site == <<"site">>

InitUpload ==
  /\ redisEnabled = TRUE
  /\ processor = Durable_process(Durable_process({}, MultiType), SingleType)
  /\ InitCommon
  /\ remote \in [Projects -> {NewTarget(Absent), NewTarget(Site)}]
  /\ proxy = NewProxy(Absent)

Upload(p, o) ==
  /\ remote[p].calls < MaxUploads
  /\ remote' = [remote EXCEPT
                  ![p] = uploadSingleProject(@, <<"dist", remote[p].calls + 1>>, o)]
  /\ UNCHANGED <<workspace, proxy, redisEnabled, heap, runs, jobs, processing, processor,
                 immediates, loop, handler, tasks, pending, store, emitted, responses>>

\* The directory the uploads go to.
UploadTargets == {"a"}

NextUpload == \E p \in UploadTargets, o \in UploadOutcomes : Upload(p, o)

SpecUpload == InitUpload /\ [][NextUpload]_vars

\* The proxy service on its own: reconfigurations one after another, each with
\* its own generated text and its own results of the operations it performs.
MaxReconfigurations == 7

InitProxy ==
  /\ redisEnabled = TRUE
  /\ processor = Durable_process(Durable_process({}, MultiType), SingleType)
  /\ InitCommon
  /\ remote = [p \in Projects |-> NewTarget(Absent)]
  /\ proxy \in {NewProxy(Absent), NewProxy(Site)}

Reconfigure(o) ==
  /\ proxy.calls < MaxReconfigurations
  /\ proxy' = updateNginxConfig(proxy, <<"conf", proxy.calls + 1>>, o)
  /\ UNCHANGED <<workspace, remote, redisEnabled, heap, runs, jobs, processing, processor,
                 immediates, loop, handler, tasks, pending, store, emitted, responses>>

NextProxy == \E o \in ProxyOutcomes : Reconfigure(o)

SpecProxy == InitProxy /\ [][NextProxy]_vars

\* The log list on its own, for either store: addDeploymentLog calls, each a
\* push followed, after an await, by the trim; calls may overlap.
MaxLogs == 102
MaxOverlap == 2

InitLogs ==
  /\ redisEnabled \in BOOLEAN
  /\ processor = IF redisEnabled
                 THEN Durable_process(Durable_process({}, MultiType), SingleType)
                 ELSE MemoryQueue_process(MemoryQueue_process(NoProcessor, MultiType),
                                          SingleType)
  /\ InitCommon
  /\ InitFiles

\* The entry a call adds: entries are numbered in the order they are pushed.
NextEntry(st, key) == IF lrange(st, key) = <<>> THEN 1 ELSE Head(lrange(st, key)) + 1

\* addDeploymentLog up to its second await: the entry is pushed.
LogPush(deploymentId) ==
  /\ NextEntry(store, LogsKey(deploymentId)) <= MaxLogs
  /\ Len(pending) < MaxOverlap
  /\ store' = lpush(store, LogsKey(deploymentId),
                    NextEntry(store, LogsKey(deploymentId)))
  /\ pending' = Append(pending, [op |-> "log", dep |-> deploymentId])
  /\ UNCHANGED <<workspace, remote, proxy, redisEnabled, heap, runs, jobs, processing, processor,
                 immediates, loop, handler, tasks, emitted, responses>>

\* addDeploymentLog after the push: the list is trimmed.
LogTrim ==
  /\ pending # <<>> /\ Head(pending).op = "log"
  /\ store' = ltrim(store, LogsKey(Head(pending).dep), 0, LastLogIndex)
  /\ pending' = Tail(pending)
  /\ UNCHANGED <<workspace, remote, proxy, redisEnabled, heap, runs, jobs, processing, processor,
                 immediates, loop, handler, tasks, emitted, responses>>

NextLogs == (\E id \in DeploymentIds : LogPush(id)) \/ LogTrim

SpecLogs == InitLogs /\ [][NextLogs]_vars

\* The proxy service called by up to two deployments at a time, each call
\* taken one await at a time. A call in progress is kept in `tasks` with the
\* text it generated; the text says whether `nginx -t` accepts it.
MaxProxyCalls == 3

Generated(dep, verdict) == <<"conf", dep, verdict>>

\* `nginx -t` on a file: the configuration that was there before any
\* deployment is accepted, a generated one as its text says.
SyntaxOk(content) ==
  content = Site \/ (content # Absent /\ content[Len(content)] = "valid")

ProxyCall(dep, generated, pc) ==
  [op |-> "nginx", dep |-> dep, generated |-> generated, pc |-> pc]

\* updateNginxConfig is called: generateNginxConfig, then backupNginxConfig.
ProxyStart(dep, verdict) ==
  /\ proxy.calls < MaxProxyCalls
  /\ \A t \in tasks : t.dep # dep
  /\ tasks' = tasks \cup {ProxyCall(dep, Generated(dep, verdict), "backup")}
  /\ proxy' = [proxy EXCEPT !.calls = @ + 1, !.ran = <<>>]

\* A call moves from one await to the next, or ends.
ProxyMove(t, pc) ==
  tasks' = IF pc = "done" THEN tasks \ {t} ELSE (tasks \ {t}) \cup {[t EXCEPT !.pc = pc]}

\* backupNginxConfig resolves: the copy was made, or failed and was logged.
ProxyBackup(t, ok) ==
  /\ t \in tasks /\ t.pc = "backup"
  /\ proxy' = [backupNginxConfig(proxy, [ProxyOk EXCEPT !.backup = ok])
                 EXCEPT !.pre = proxy.file]
  /\ ProxyMove(t, "write")

\* fs.writeFile resolves or throws.
ProxyWrite(t, ok) ==
  /\ t \in tasks /\ t.pc = "write"
  /\ proxy' = IF ok THEN [proxy EXCEPT !.file = t.generated, !.ran = Append(@, "write")]
               ELSE proxy
  /\ ProxyMove(t, IF ok THEN "validate" ELSE "restore")

\* validateNginxConfig: `nginx -t` checks the file as it is now.
ProxyValidate(t) ==
  /\ t \in tasks /\ t.pc = "validate"
  /\ proxy' = [proxy EXCEPT !.ran = Append(@, "validate")]
  /\ ProxyMove(t, IF SyntaxOk(proxy.file) THEN "reload" ELSE "restore")

\* reloadNginx resolves or throws.
ProxyReload(t, ok) ==
  /\ t \in tasks /\ t.pc = "reload"
  /\ proxy' = [reloadNginx(proxy, ok) EXCEPT
                 !.configured = IF ok THEN @ + 1 ELSE @,
                 !.last = IF ok THEN "configured" ELSE "reloadFailed"]
  /\ ProxyMove(t, IF ok THEN "done" ELSE "restore")

\* restoreBackupConfig up to its reload: the newest backup is copied over the
\* file; with no backup, or when the copy fails, the call ends.
ProxyRestore(t, ok) ==
  /\ t \in tasks /\ t.pc = "restore"
  /\ proxy' = IF proxy.backups # <<>> /\ ok
               THEN [proxy EXCEPT !.file = Head(proxy.backups),
                                  !.ran = Append(@, "restore")]
               ELSE proxy
  /\ ProxyMove(t, IF proxy.backups # <<>> /\ ok THEN "restoreReload" ELSE "done")

\* restoreBackupConfig's reloadNginx resolves or throws (caught and logged).
ProxyRestoreReload(t, ok) ==
  /\ t \in tasks /\ t.pc = "restoreReload"
  /\ proxy' = reloadNginx(proxy, ok)
  /\ ProxyMove(t, "done")

NextProxySteps ==
  \/ \E dep \in DeploymentIds, verdict \in {"valid", "invalid"} : ProxyStart(dep, verdict)
  \/ \E t \in tasks, ok \in BOOLEAN : ProxyBackup(t, ok)
  \/ \E t \in tasks, ok \in BOOLEAN : ProxyWrite(t, ok)
  \/ \E t \in tasks : ProxyValidate(t)
  \/ \E t \in tasks, ok \in BOOLEAN : ProxyReload(t, ok)
  \/ \E t \in tasks, ok \in BOOLEAN : ProxyRestore(t, ok)
  \/ \E t \in tasks, ok \in BOOLEAN : ProxyRestoreReload(t, ok)

ProxySteps ==
  /\ NextProxySteps
  /\ UNCHANGED <<workspace, remote, redisEnabled, heap, runs, jobs, processing, processor,
                 immediates, loop, handler, pending, store, emitted, responses>>

SpecProxySteps == InitProxy /\ [][ProxySteps]_vars

\* The build service on its own: one buildMultipleProjects call on a project
\* list and a concurrency limit, builds settling one at a time in any order.
MaxListLen == 3
MaxSize == 3
BuildNames == {"a", "b"}

BuildLists == UNION {[1..n -> BuildNames] : n \in 0..MaxListLen}

\* A chunking that keeps the first chunk only.
chunkArrayFirst(array, size) ==
  IF array = <<>> THEN <<>>
  ELSE <<SubSeq(array, 1, IF size < Len(array) THEN size ELSE Len(array))>>

\* chunkArray's loop from index i on: array.slice(i, i + size), then i += size.
RECURSIVE chunksFrom(_, _, _)
chunksFrom(array, size, i) ==
  IF i >= Len(array) THEN <<>>
  ELSE <<SubSeq(array, i + 1, IF i + size < Len(array) THEN i + size ELSE Len(array))>>
       \o chunksFrom(array, size, i + size)

\* BuildService.chunkArray(array, size).
chunkArray(array, size) == chunksFrom(array, size, 0)

\* The elements of the chunks, one after another.
RECURSIVE Flatten(_)
Flatten(chunks) == IF chunks = <<>> THEN <<>> ELSE Head(chunks) \o Flatten(Tail(chunks))

\* The positions in the flattened list that chunk k holds.
ChunkPositions(chunks, k) ==
  LET before == Len(Flatten(SubSeq(chunks, 1, k - 1)))
  IN (before + 1)..(before + Len(chunks[k]))

\* A buildMultipleProjects call that has computed its chunks: no chunk
\* started, no result, no error.
BuildCall(projectIds, size) ==
  [pc |-> "loop", projectIds |-> projectIds, size |-> size,
   chunks |-> chunkArray(projectIds, size), k |-> 1, inflight |-> {},
   calls |-> [i \in 1..Len(projectIds) |-> 0], results |-> {}, errors |-> {}]

InitChunks ==
  /\ redisEnabled = TRUE
  /\ processor = Durable_process(Durable_process({}, MultiType), SingleType)
  /\ heap = <<>> /\ runs = <<>> /\ jobs = <<>>
  /\ processing = FALSE /\ immediates = 0
  /\ loop = [snap |-> <<>>, idx |-> 0]
  /\ tasks = {} /\ pending = <<>> /\ store = <<>>
  /\ emitted = {} /\ responses = <<>>
  /\ workspace = [p \in Projects |-> Absent]
  /\ InitFiles
  /\ handler \in {<<BuildCall(l, c)>> : l \in BuildLists, c \in 1..MaxSize}

\* The for-loop takes the next chunk: buildProject is called for each of its
\* projects and Promise.all awaited.
ChunkStart ==
  LET b == handler[1] IN
  /\ b.pc = "loop" /\ b.inflight = {} /\ b.k <= Len(b.chunks)
  /\ handler' = [handler EXCEPT
       ![1].inflight = ChunkPositions(b.chunks, b.k),
       ![1].k = b.k + 1,
       ![1].calls = [i \in DOMAIN b.calls |->
                       IF i \in ChunkPositions(b.chunks, b.k) THEN b.calls[i] + 1
                       ELSE b.calls[i]]]

\* One buildProject of the chunk settles: its dist path goes to results, or its
\* error is caught and goes to errors.
BuildSettle(i, ok) ==
  LET b == handler[1] IN
  /\ b.pc = "loop" /\ i \in b.inflight
  /\ handler' = [handler EXCEPT
       ![1].inflight = b.inflight \ {i},
       ![1].results = IF ok THEN b.results \cup {Flatten(b.chunks)[i]} ELSE b.results,
       ![1].errors = IF ok THEN b.errors ELSE b.errors \cup {Flatten(b.chunks)[i]}]

\* After the last chunk: throw when any build failed, else return results.
BuildEnd ==
  LET b == handler[1] IN
  /\ b.pc = "loop" /\ b.inflight = {} /\ b.k > Len(b.chunks)
  /\ handler' = [handler EXCEPT ![1].pc = IF b.errors # {} THEN "thrown" ELSE "returned"]

NextChunks ==
  \/ ChunkStart
  \/ \E i \in 1..MaxListLen, ok \in BOOLEAN : BuildSettle(i, ok)
  \/ BuildEnd

BuildSteps ==
  /\ NextChunks
  /\ UNCHANGED <<workspace, remote, proxy, redisEnabled, heap, runs, jobs, processing,
                 processor, immediates, loop, tasks, pending, store, emitted, responses>>

\* Every build settles (the build command runs under a timeout) and the loop
\* goes on when nothing is awaited.
SpecChunks == InitChunks /\ [][BuildSteps]_vars /\ WF_vars(BuildSteps)

\* Either configuration serving two deployments of the same project, whose
\* pipelines run while log entries are appended for either of them.
MaxFrameLogs == 1

LogAppend(deploymentId) ==
  /\ Len(lrange(store, LogsKey(deploymentId))) < MaxFrameLogs
  /\ LogPush(deploymentId)

NextFrame ==
  \/ NextWorkspace
  \/ processJobs
  \/ \E id \in DeploymentIds : LogAppend(id)
  \/ LogTrim

SpecFrame == InitLogs /\ [][NextFrame]_vars

(* ------------------------------ properties ---------------------------- *)
\* The deployments that have a persisted status record, and the record.
Persisted == {dep \in DOMAIN store : "data" \in DOMAIN store[dep]}
Record(dep) == store[dep].data

\* C1: in every reachable state of a persisted status record, overallStatus is
\* `completed` only if every project of the deployment has status `completed`.
C1_CompletedOnlyIfAllCompleted ==
  \A dep \in Persisted :
    Record(dep).overallStatus = "completed" =>
      \A p \in DOMAIN Record(dep).projects :
        Record(dep).projects[p].status = "completed"

\* Requests answered so far with the given status code.
Answered(code) == {i \in DOMAIN responses : responses[i].code = code}

\* C2: a multi-project trigger whose project set is empty or has more than 10
\* entries is answered with a validation error (400), and creates no job: every
\* job the queue ever held comes from a request answered 200.
C2_InvalidMultiRejected ==
  /\ \A i \in DOMAIN responses :
       /\ responses[i].endpoint = MultiType
       /\ responses[i].projects = 0 \/ responses[i].projects > 10
       => responses[i].code = 400
  /\ Len(heap) = Cardinality(Answered(200))
  /\ Len(jobs) <= Cardinality(Answered(200))

\* An empty and an oversized request have both been rejected, the queue empty.
C2_BothRejected ==
  /\ \E i \in Answered(400) : responses[i].projects = 0
  /\ \E i \in Answered(400) : responses[i].projects > 10
  /\ heap = <<>> /\ jobs = <<>>

\* C3: for every job id, at most one handler invocation is in progress.
C3_OneInvocationPerId ==
  \A r1 \in Running, r2 \in Running : heap[r1].id = heap[r2].id => r1 = r2

\* The same id has been enqueued again while its first execution is active.
C3_ReenqueuedWhileActive ==
  \E r1 \in Running, r2 \in DOMAIN heap :
    /\ r1 # r2
    /\ heap[r1].id = heap[r2].id
    /\ heap[r2].status = "waiting"
    /\ r2 \in Range(jobs)

\* C4: enqueue is idempotent by id: a request never changes a job that is
\* waiting in the queue (its place, payload, options and enqueue timestamp).
C4_EnqueueIdempotent ==
  [][Len(responses') > Len(responses) =>
       \A k \in DOMAIN jobs :
         heap[jobs[k]].status = "waiting" =>
           jobs'[k] = jobs[k] /\ heap'[jobs'[k]] = heap[jobs[k]]]_vars

\* The job object is in the queue and waiting.
Waiting(r) == r \in DOMAIN heap /\ r \in Range(jobs) /\ heap[r].status = "waiting"

\* C5: every enqueued job eventually leaves `waiting`, also when it was enqueued
\* while another job was being processed and no enqueue follows.
C5_EventuallyDequeued ==
  \A r \in 1..MaxRequests : Waiting(r) ~> ~Waiting(r)

\* C6: a job is marked failed, and `failed` is emitted, only when its attempts
\* (3) are exhausted; a throwing invocation below that is re-scheduled.
C6_FailedOnlyWhenExhausted ==
  /\ \A e \in emitted : e.event = "failed" => runs[e.ref] >= heap[e.ref].options.attempts
  /\ \A r \in DOMAIN heap :
       heap[r].status = "failed" => runs[r] >= heap[r].options.attempts

\* C7: a job is dequeued only when no job waiting at that time has a higher
\* priority value, nor the same priority and an earlier enqueue time.
C7_PriorityThenFifo ==
  [][\A r \in DOMAIN heap :
       heap[r].status = "waiting" /\ heap'[r].status = "active" =>
         \A q \in DOMAIN heap :
           Waiting(q) /\ q # r =>
             \/ heap[q].options.priority < heap[r].options.priority
             \/ /\ heap[q].options.priority = heap[r].options.priority
                /\ heap[q].timestamp >= heap[r].timestamp]_vars

\* C8: a job is executed by the handler registered for the type it was
\* enqueued under.
C8_HandlerMatchesType ==
  \A r \in Running : handler[r].kind = heap[r].name

\* The order of the stages of a project's status.
Rank(status) ==
  CASE status = "pending" -> 0
    [] status = "cloning" -> 1
    [] status = "building" -> 2
    [] status = "uploading" -> 3
    [] status = "configuring" -> 4
    [] status = "completed" -> 5
    [] OTHER -> 6

\* C9: within one pipeline execution (no step that starts an execution), the
\* persisted status of a project never moves to an earlier stage.
C9_StatusNeverMovesBack ==
  [][runs' = runs =>
       \A dep \in Persisted :
         \A p \in DOMAIN Record(dep).projects :
           /\ Record(dep).projects[p].status # "failed"
           /\ store'[dep].data.projects[p].status # "failed"
           => Rank(store'[dep].data.projects[p].status)
                >= Rank(Record(dep).projects[p].status)]_vars

\* C10: once the persisted status of a project is `failed`, no later write of
\* that deployment changes it.
C10_FailedIsTerminal ==
  [][\A dep \in Persisted :
       \A p \in DOMAIN Record(dep).projects :
         Record(dep).projects[p].status = "failed" =>
           store'[dep].data.projects[p].status = "failed"]_vars

\* The stages of an execution that come after source acquisition.
LaterStages == {"build", "getConfig", "connect", "awaitUploads", "nginx"}
StagesRun(hr) == hr.builds + hr.configs + hr.uploads + hr.nginxs

\* C11: once source acquisition has failed for a project of an execution, that
\* execution never starts a build, never resolves the server configuration,
\* never uploads and never reconfigures the proxy.
C11_CloneFailureAborts ==
  \A ref \in Running :
    handler[ref].cloneFailed =>
      /\ StagesRun(handler[ref]) = 0
      /\ handler[ref].pc \notin LaterStages
      /\ handler[ref].inflight = {}
      /\ \A t \in tasks : t.ref = ref /\ t.live => t.op = "clone"

\* An execution over several projects is over after one of its clones failed
\* while the clone of another of its projects succeeded.
C11_AbortedAfterCloneFailure ==
  \E ref \in Running :
    /\ handler[ref].cloneFailed /\ handler[ref].pc = "return"
    /\ Len(handler[ref].projectIds) >= 2
    /\ tasks = {} /\ pending = <<>>

\* An execution that is over after source acquisition succeeded for all its
\* projects and the build of at least one of them failed.
BuildFailed(ref) ==
  /\ ref \in Running /\ handler[ref].pc = "return"
  /\ ~handler[ref].cloneFailed /\ handler[ref].errors # {}

\* The persisted record of the deployment an execution works on.
RecordOf(ref) == Record(StatusKey(handler[ref].dep))

\* C12: when every clone of an execution succeeded and the build of some
\* project failed, then at the end of the execution the persisted overall
\* status is failed, the project whose build failed is persisted as failed, a
\* project whose build succeeded is not past building, and no upload or proxy
\* stage was run.
C12_BuildFailureRecorded ==
  \A ref \in Running :
    BuildFailed(ref) /\ StatusKey(handler[ref].dep) \in Persisted =>
      /\ RecordOf(ref).overallStatus = "failed"
      /\ \A p \in handler[ref].errors : RecordOf(ref).projects[p].status = "failed"
      /\ \A p \in handler[ref].built :
           Rank(RecordOf(ref).projects[p].status) <= Rank("building")
      /\ handler[ref].uploads = 0 /\ handler[ref].nginxs = 0

\* C13: an execution never has more than CONCURRENT_BUILDS builds in flight,
\* and it starts the builds of a chunk only when no build of the previous
\* chunk is still running (the step that starts them resolves the last one).
C13_BuildConcurrencyBounded ==
  /\ [](\A ref \in Running : Cardinality(handler[ref].inflight) <= CONCURRENT_BUILDS)
  /\ [][\A ref \in Running :
          /\ runs' = runs /\ handler'[ref].pc # "idle"
          /\ handler'[ref].builds > handler[ref].builds
          => /\ handler[ref].inflight \cap handler'[ref].inflight = {}
             /\ Cardinality(handler[ref].inflight) <= 1]_vars

\* The third project of a three-project execution is being built on its own,
\* after the chunk of the first two.
C13_SecondChunkRunning ==
  \E ref \in Running :
    /\ Len(handler[ref].projectIds) > CONCURRENT_BUILDS
    /\ handler[ref].pc = "build" /\ handler[ref].builds = 3
    /\ handler[ref].inflight = {"c"}

\* The upload and proxy stages of an execution have not begun: nothing of it
\* has touched a deploy directory or the proxy configuration.
NothingDeployed(ref) ==
  /\ handler[ref].uploads = 0 /\ handler[ref].nginxs = 0
  /\ handler[ref].pc \notin {"connect", "awaitUploads", "nginx"}
  /\ \A t \in tasks : t.ref = ref /\ t.live => t.op # "upload"

\* C14: an execution resolves the server configuration at most once, only
\* after the builds of all its projects succeeded, and exactly once when it
\* completes; when the resolution fails the execution ends without having
\* started an upload (no backup, no clearing, no transfer) or a proxy
\* reconfiguration.
C14_ConfigOnceBeforeDeploying ==
  \A ref \in Running :
    /\ handler[ref].configs <= 1
    /\ handler[ref].configs = 1 \/ handler[ref].pc = "getConfig" =>
         /\ handler[ref].errors = {} /\ ~handler[ref].cloneFailed
         /\ handler[ref].built = Range(handler[ref].projectIds)
    /\ handler[ref].pc = "return" /\ handler[ref].target = "completed" =>
         handler[ref].configs = 1
    /\ ~NothingDeployed(ref) => handler[ref].configs = 1
    /\ handler[ref].configFailed => NothingDeployed(ref)

\* An execution is over after its configuration resolution failed.
C14_AbortedOnConfigFailure ==
  \E ref \in Running :
    /\ handler[ref].configFailed /\ handler[ref].pc = "return"
    /\ handler[ref].built = {"a", "b"}

\* C19: an execution calls the notification service exactly once, at its end,
\* with `success` if and only if the job completes and `failure` otherwise
\* (never both); whether the notification could be delivered does not change
\* what the queue records for the job.
C19_NotifiedOnceWithOutcome ==
  /\ [](\A ref \in Running :
          IF handler[ref].pc = "return"
          THEN /\ Len(handler[ref].sent) = 1
               /\ handler[ref].sent[1] \in {"success", "failure"}
               /\ handler[ref].sent[1] = "success" <=> handler[ref].target = "completed"
          ELSE handler[ref].sent = <<>>)
  /\ [][\A ref \in Running :
          handler'[ref].pc = "idle" =>
            /\ handler[ref].pc = "return"
            /\ heap'[ref].status = "completed" <=> handler[ref].sent = <<"success">>
            /\ heap'[ref].status # "completed" <=> handler[ref].sent = <<"failure">>]_vars

\* An execution is about to return its result after a success notification
\* that could not be delivered.
C19_SuccessUndelivered ==
  \E ref \in Running :
    /\ handler[ref].pc = "return" /\ handler[ref].sent = <<"success">>
    /\ ~handler[ref].delivered

\* C20: when the execution of a single-project deployment is about to return
\* `completed`, the persisted overall status is completed with the project
\* completed, the job's progress is 100, and exactly one notification, with
\* status success, has been sent.
C20_SingleProjectCompletes ==
  \A ref \in Running :
    /\ handler[ref].pc = "return" /\ handler[ref].target = "completed"
    /\ handler[ref].kind = SingleType /\ heap[ref].name = SingleType
    => /\ StatusKey(handler[ref].dep) \in Persisted
       /\ RecordOf(ref).overallStatus = "completed"
       /\ \A p \in Range(handler[ref].projectIds) :
            RecordOf(ref).projects[p].status = "completed"
       /\ heap[ref].progress = 100
       /\ handler[ref].sent = <<"success">>

\* The numbers the backups of a directory were created as.
SnapshotIds(target) == {target.snapshots[k].id : k \in DOMAIN target.snapshots}

\* C15: once more than RetainedBackups uploads have completed over an existing
\* deploy directory, exactly RetainedBackups backups of it remain, and they are
\* the most recently created ones.
C15_UploadRetention ==
  \A p \in Projects :
    remote[p].replaced > RetainedBackups =>
      /\ Len(remote[p].snapshots) = RetainedBackups
      /\ SnapshotIds(remote[p]) =
           (remote[p].made - RetainedBackups + 1)..remote[p].made

\* C18: when the transfer of an upload fails after the directory was cleared,
\* and a backup of what the directory held before exists, the directory holds
\* that content again when the upload step is over.
C18_UploadRolledBack ==
  \A p \in Projects :
    /\ remote[p].last = "failed" /\ remote[p].pre # Absent
    /\ remote[p].snapshots # <<>>
    => remote[p].content = Head(remote[p].snapshots).content

\* C16: at most RetainedBackups backups of the proxy configuration are kept.
C16_ProxyRetention == Len(proxy.backups) <= RetainedBackups

\* An execution that is over after its proxy reconfiguration was refused by
\* the syntax check, the configuration file having existed before.
ProxyRefused(ref) ==
  /\ ref \in Running /\ handler[ref].pc = "return"
  /\ handler[ref].nginxs = 1 /\ handler[ref].target = "failed"
  /\ proxy.last = "invalid" /\ proxy.pre # Absent

\* C17: when the syntax check fails after the proxy configuration was written
\* and the file existed before, then at the end of the execution the file
\* holds what it held before the reconfiguration, the reload was run on that
\* restored content, and the persisted overall status is failed.
C17_ProxyRolledBack ==
  \A ref \in Running :
    ProxyRefused(ref) =>
      /\ proxy.file = proxy.pre
      /\ proxy.reloadedWith = proxy.pre
      /\ StatusKey(handler[ref].dep) \in Persisted
      /\ RecordOf(ref).overallStatus = "failed"

\* C21: the progress a job reports never decreases, over all the executions
\* of the job.
C21_ProgressNeverDecreases ==
  [][\A r \in DOMAIN heap : heap'[r].progress >= heap[r].progress]_vars

\* DeploymentController.mapJobStateToStatus.
mapJobStateToStatus(jobState) ==
  CASE jobState = "waiting" -> "pending"
    [] jobState = "active" -> "building"
    [] jobState = "completed" -> "completed"
    [] jobState = "failed" -> "failed"
    [] OTHER -> "pending"

\* deploymentQueue.getJob(jobId): whether there is a job under that id, and
\* the job object when there is.
HasJob(js, h, jobId) == KeyIndex(js, h, jobId) # 0
getJob(js, h, jobId) == h[js[KeyIndex(js, h, jobId)]]

\* DeploymentController.getDeploymentStatus: what it answers. It reads the
\* `status` field of the hash; without one it falls back to the job's state,
\* and answers 404 when there is no job either.
getDeploymentStatus(st, js, h, deploymentId) ==
  LET statusData == hgetall(st, StatusKey(deploymentId))
      job == getJob(js, h, deploymentId)
  IN IF "status" \notin DOMAIN statusData
     THEN IF ~HasJob(js, h, deploymentId) THEN [code |-> 404]
          ELSE [code |-> 200, status |-> mapJobStateToStatus(job.status),
                progress |-> job.progress, logs |-> <<>>]
     ELSE [code |-> 200, status |-> statusData.status,
           progress |-> Get(statusData, "progress"), logs |-> <<>>]

\* C22: a status query for a deployment with a persisted status record answers
\* with that record's overall status and per-project statuses, at any point of
\* the pipeline; it answers NotFound only when the deployment has neither a
\* persisted record nor a job.
C22_QueryReturnsRecord ==
  \A id \in DeploymentIds :
    LET answer == getDeploymentStatus(store, jobs, heap, id) IN
    /\ StatusKey(id) \in Persisted =>
         /\ answer.code = 200
         /\ answer.status = Record(StatusKey(id)).overallStatus
         /\ "projects" \in DOMAIN answer
         /\ answer.projects = Record(StatusKey(id)).projects
    /\ answer.code = 404 =>
         StatusKey(id) \notin Persisted /\ ~HasJob(jobs, heap, id)

\* The log list of a deployment, and the calls of addDeploymentLog for it that
\* have pushed but not yet trimmed.
Logs(id) == lrange(store, LogsKey(id))
TrimsDue(id) == {k \in DOMAIN pending : pending[k].op = "log" /\ pending[k].dep = id}

\* C24: once the addDeploymentLog calls for a deployment are over its log
\* list has at most 100 entries, exactly 100 when more were added (and never
\* more than 100 plus the calls under way); the list is always newest first
\* without gaps, and a trim drops entries from the old end only.
C24_LogsCapped ==
  /\ [](\A id \in DeploymentIds :
          /\ Len(Logs(id)) <= LastLogIndex + 1 + Cardinality(TrimsDue(id))
          /\ \A k \in DOMAIN Logs(id) : Logs(id)[k] = Head(Logs(id)) - k + 1
          /\ TrimsDue(id) = {} /\ Logs(id) # <<>> /\ Head(Logs(id)) > LastLogIndex + 1
             => Len(Logs(id)) = LastLogIndex + 1)
  /\ [][\A id \in DeploymentIds :
          Len(lrange(store', LogsKey(id))) < Len(Logs(id)) =>
            /\ lrange(store', LogsKey(id)) = SubSeq(Logs(id), 1, LastLogIndex + 1)]_vars

\* More than 100 entries were added to a list, in both stores' case, and the
\* calls are over.
C24_Evicted ==
  \E id \in DeploymentIds :
    /\ Logs(id) # <<>> /\ Head(Logs(id)) > LastLogIndex + 2
    /\ pending = <<>> /\ ~redisEnabled

\* C23: whenever the persisted overall status of a deployment is failed, the
\* deployment's log list has at least one entry.
C23_FailureLogged ==
  \A id \in DeploymentIds :
    StatusKey(id) \in Persisted /\ Record(StatusKey(id)).overallStatus = "failed"
    => Logs(id) # <<>>

\* C25: a pipeline that is under way does not keep another deployment's job
\* waiting: when the queue's dispatch (processJobs) runs while a pipeline is
\* active and a job of another deployment is waiting, a waiting job becomes
\* active.
C25_OthersNotBlocked ==
  [][(/\ immediates' < immediates
      /\ \E r1 \in Running, r2 \in DOMAIN heap :
            Waiting(r2) /\ heap[r2].id # heap[r1].id)
     => \E r \in DOMAIN heap : Waiting(r) /\ heap'[r].status = "active"]_vars

\* The execution on job object ref and every operation it launched are over:
\* only the re-throw is left, no clone or upload runs, no store command waits.
Settled(ref) ==
  /\ ref \in Running /\ handler[ref].pc = "return"
  /\ \A t \in tasks \cup Range(pending) : t.ref # ref

\* C26: when the clone of project p failed, then once the execution and all it
\* launched are over, the persisted record shows p failed and the overall
\* status failed.
C26_CloneFailurePersisted ==
  \A ref \in Running :
    Settled(ref) /\ handler[ref].cloneFailed =>
      /\ RecordOf(ref).overallStatus = "failed"
      /\ RecordOf(ref).projects[handler[ref].cloneError].status = "failed"

\* C27: fan-in barrier: while a clone or an upload launched by a pipeline has
\* not resolved, the pipeline is still waiting in that stage: it has neither
\* gone on to the next stage nor entered its failure exit.
C27_FanInBarrier ==
  \A t \in tasks :
    /\ t.ref \in Running
    /\ handler[t.ref].pc = IF t.op = "clone" THEN "awaitClones" ELSE "awaitUploads"

\* C28: snapshot before mutate: an upload that clears a directory that existed
\* has created a backup of it in the same call, and a reconfiguration that
\* overwrites an existing configuration file has created a backup file of it in
\* the same call.
C28_SnapshotBeforeMutate ==
  /\ [][\A p \in Projects :
          remote'[p].calls > remote[p].calls /\ remote[p].content # Absent
          => remote'[p].made = remote[p].made + 1]_vars
  /\ [][(/\ proxy'.calls > proxy.calls
          /\ proxy.file # Absent
          /\ proxy'.last # "writeFailed")
         => /\ Len(proxy'.backups) = Len(proxy.backups) + 1
            /\ Head(proxy'.backups) = proxy.file]_vars

\* C29: after a failed verification of the proxy configuration, the syntax
\* check runs again on the restored configuration before nginx is reloaded:
\* between the restore and the reload that follows it there is a validation.
C29_RestoredIsVerified ==
  proxy.last = "invalid" =>
    \A i \in DOMAIN proxy.ran, k \in DOMAIN proxy.ran :
      i < k /\ proxy.ran[i] = "restore" /\ proxy.ran[k] = "reload" =>
        \E j \in DOMAIN proxy.ran : i < j /\ j < k /\ proxy.ran[j] = "validate"

\* The failure exit of the execution on ref is at one of these positions.
FailureExit(ref, pcs) ==
  ref \in Running /\ handler[ref].target = "failed" /\ handler[ref].pc \in pcs

\* C30: failure exit: the handler that caught an error first sets the persisted
\* overall status to failed, then runs the failure cleanup, then sends one
\* failure notification and last re-throws, and the queue takes the job as
\* failed: the status is failed when the cleanup starts, nothing was sent
\* before the cleanup is over, exactly one failure notification was sent when
\* the error is re-thrown, and the re-throw reaches the queue as a failure.
C30_FailureExitInOrder ==
  /\ [][\A ref \in DOMAIN handler :
          FailureExit(ref, {"overallW"}) /\ handler'[ref].pc = "cleanup" =>
            /\ "data" \in DOMAIN hgetall(store', StatusKey(handler[ref].dep))
            /\ hgetall(store', StatusKey(handler[ref].dep)).data.overallStatus = "failed"]_vars
  /\ [](\A ref \in DOMAIN handler :
          /\ FailureExit(ref, {"overallW", "cleanup", "notify"}) => handler[ref].sent = <<>>
          /\ FailureExit(ref, {"return"}) => handler[ref].sent = <<"failure">>)
  /\ [][\A ref \in DOMAIN handler :
          FailureExit(ref, {"return"}) /\ handler'[ref].pc = "idle" =>
            runs[ref] < heap[ref].options.attempts \/ heap'[ref].status = "failed"]_vars

\* C31: from the start of an execution until it reaches its exit, the persisted
\* overall status is in_progress; at the start every project of the deployment
\* is persisted as pending.
C31_InProgressWhileRunning ==
  \A ref \in Running :
    handler[ref].target = "none" /\ StatusKey(handler[ref].dep) \in Persisted =>
      /\ RecordOf(ref).overallStatus = "in_progress"
      /\ handler[ref].pc = "init" =>
            \A p \in Range(handler[ref].projectIds) :
              RecordOf(ref).projects[p].status = "pending"

C33_CloneUpdatesKept ==
  \A ref \in Running :
    /\ handler[ref].pc = "updW" /\ handler[ref].st = "building" /\ handler[ref].i = 1
    /\ StatusKey(handler[ref].dep) \in Persisted
    => \A p \in Range(handler[ref].projectIds) :
         /\ RecordOf(ref).projects[p].status = "cloning"
         /\ RecordOf(ref).projects[p].progress = 100

\* C34: while a deployment uploads a project, the project's dist directory
\* holds the output of that deployment's own build.
C34_ArtifactKept ==
  \A t \in tasks : t.op = "upload" => workspace[t.proj] = Dist(t.dep)

\* A step of the pipeline of deployment id, or of a log append for it: its
\* handler moves, or a store command of one of its operations is answered, or
\* a log entry for it is pushed.
Actor(id) ==
  \/ \E ref \in DOMAIN handler : heap[ref].id = id /\ handler'[ref] # handler[ref]
  \/ /\ pending # <<>> /\ Head(pending).op # "handler" /\ Head(pending).dep = id
     /\ Len(pending') >= Len(pending) - 1
     /\ SubSeq(pending', 1, Len(pending) - 1) = Tail(pending)
  \/ /\ Len(pending') = Len(pending) + 1
     /\ pending'[Len(pending')] = [op |-> "log", dep |-> id]

\* C35: a step changes the status record or the log list of a deployment only
\* when it is a step of that deployment's own pipeline or log append; and a
\* status record comes into being only by the initialisation at the start of
\* an execution of that deployment, never by a status update.
C35_OtherDeploymentsUntouched ==
  /\ [][\A id \in DeploymentIds :
          \/ hgetall(store', StatusKey(id)) # hgetall(store, StatusKey(id))
          \/ lrange(store', LogsKey(id)) # lrange(store, LogsKey(id))
          => Actor(id)]_vars
  /\ [][\A id \in DeploymentIds :
          /\ "data" \notin DOMAIN hgetall(store, StatusKey(id))
          /\ "data" \in DOMAIN hgetall(store', StatusKey(id))
          => \E ref \in DOMAIN handler : heap[ref].id = id /\ runs'[ref] > runs[ref]]_vars

\* Two deployments have run, one to completion and one to failure, each record
\* showing its own outcome, and a log entry was appended for one of them only.
C35_RecordsApart ==
  /\ "data" \in DOMAIN hgetall(store, StatusKey("d1"))
  /\ "data" \in DOMAIN hgetall(store, StatusKey("d2"))
  /\ Record(StatusKey("d1")).overallStatus = "completed"
  /\ Record(StatusKey("d2")).overallStatus = "failed"
  /\ lrange(store, LogsKey("d1")) # <<>>
  /\ lrange(store, LogsKey("d2")) = <<>>

\* C36: nginx is never reloaded while the configuration file holds a generated
\* configuration that the syntax check does not accept.
C36_ReloadOnlyChecked ==
  [][proxy'.ran = Append(proxy.ran, "reload") => SyntaxOk(proxy.file)]_vars

\* C37: store round trip: once initializeDeploymentStatus has written, reading
\* the deployment's key gives a record with every project pending; and when an
\* updateSingleProjectStatus call has written, reading the key gives a record
\* that shows the project with the status written.
C37_StoreRoundTrip ==
  /\ [][\A ref \in DOMAIN handler :
          handler[ref].pc # "init" /\ handler'[ref].pc = "init" =>
            /\ "data" \in DOMAIN hgetall(store', StatusKey(heap[ref].id))
            /\ \A p \in Range(handler'[ref].projectIds) :
                 hgetall(store', StatusKey(heap[ref].id)).data.projects[p].status
                   = "pending"]_vars
  /\ [][\A ref \in Running :
          /\ handler[ref].pc = "updW" /\ handler'[ref] # handler[ref]
          /\ handler[ref].st # "built"
          => /\ "data" \in DOMAIN hgetall(store', StatusKey(handler[ref].dep))
             /\ hgetall(store', StatusKey(handler[ref].dep)).data
                  .projects[handler[ref].projectIds[handler[ref].i]].status
                  = StageStatus(handler[ref].st)]_vars

\* The project set a job was enqueued for: projectIds of a multi-project job,
\* [projectId] of a single-project job.
ProjectSet(job) ==
  IF job.name = MultiType THEN job.data.projectIds ELSE <<job.data.projectId>>

\* C38: a job for one project p is processed in the same way whether it was
\* enqueued as a single-project job for p or as a multi-project job for [p]:
\* the pipeline that runs for it is the pipeline over [p] (the two handlers
\* have the same body, so their steps are a function of that list and of what
\* the adapters answer).
C38_SingleAsMultiOfOne ==
  \A ref \in Running :
    Len(ProjectSet(heap[ref])) = 1 => handler[ref].projectIds = ProjectSet(heap[ref])

\* WebhookController.getQueueStatus: the number of jobs the queue reports in
\* each state (getWaiting, getActive, getCompleted, getFailed).
getQueueStatus(js, h) ==
  [st \in {"waiting", "active", "completed", "failed"} |-> Len(FilterRefs(js, h, st))]

\* C39: every job the queue holds is in one of the four states, the number of
\* jobs reported active is the number of handler invocations in progress, and
\* a job that is completed or failed keeps that status.
C39_CountsReflectExecutions ==
  /\ [](/\ \A r \in Range(jobs) :
            heap[r].status \in {"waiting", "active", "completed", "failed"}
        /\ getQueueStatus(jobs, heap)["active"] = Cardinality(Running))
  /\ [][\A r \in DOMAIN heap :
          heap[r].status \in {"completed", "failed"} => heap'[r].status = heap[r].status]_vars

\* C40: for every project list and every concurrency limit of at least 1,
\* the chunks are the list cut in order into pieces of at most that size, the
\* build is invoked at most once per entry at any time and exactly once per
\* entry when the call ends, the call throws only after every chunk has been
\* processed, it returns with a result for every project when no build failed,
\* and it always ends.
C40_BuildsEachProjectOnce ==
  /\ [](LET b == handler[1] IN
        /\ Flatten(b.chunks) = b.projectIds
        /\ \A k \in DOMAIN b.chunks : Len(b.chunks[k]) >= 1 /\ Len(b.chunks[k]) <= b.size
        /\ \A i \in DOMAIN b.calls : b.calls[i] <= 1
        /\ Cardinality(b.inflight) <= b.size
        /\ b.pc \in {"thrown", "returned"} =>
              /\ \A i \in DOMAIN b.calls : b.calls[i] = 1
              /\ b.k = Len(b.chunks) + 1 /\ b.inflight = {}
        /\ b.pc = "thrown" <=> b.pc # "loop" /\ b.errors # {}
        /\ b.pc = "returned" => b.results = Range(b.projectIds))
  /\ <>(handler[1].pc \in {"thrown", "returned"})

\* A call on a list of several chunks has thrown after building every project,
\* one of the builds having failed and another succeeded.
C40_ThrownAfterAllChunks ==
  /\ handler[1].pc = "thrown"
  /\ Len(handler[1].chunks) >= 2
  /\ handler[1].results # {} /\ handler[1].errors # {}
  /\ \A i \in DOMAIN handler[1].calls : handler[1].calls[i] = 1

====
